---- MODULE Spec2Model ----
(***************************************************************************)
(* A model of beamerhierarchy/color.py: the colour nodes (RawColor,        *)
(* BeamerColor), the blend and inversion of colours, the recording of      *)
(* inheritance edges, and the graph containers with their rendering.       *)
(*                                                                         *)
(* A Python string holding a hex colour is a sequence of character codes   *)
(* without the leading '#': 0..9 are '0'..'9', 10..15 are 'a'..'f' and     *)
(* 16..21 are 'A'..'F'.  A Python float is the integer numerator of a      *)
(* fraction over Scale, so that k/255 is 100*k and a weighted sum of       *)
(* channels with whole percentages is exact.  On the colours and           *)
(* percentages of the calls made here the floats of the source give the    *)
(* same bytes as the exact fractions: int(255 * (k / 255)) is k for every  *)
(* byte k, and the sums that end in a half (127.5) are exact in binary.    *)
(***************************************************************************)
EXTENDS Integers, Sequences, FiniteSets, TLC

VARIABLES
    color,        \* RawColor.color, per raw node
    fontcolor,    \* RawColor.fontcolor, per raw node
    fg,           \* BeamerColor.fg, per derived node
    inverted_fg,  \* BeamerColor.inverted_fg
    bg,           \* BeamerColor.bg
    inverted_bg,  \* BeamerColor.inverted_bg
    parents,      \* Node.parents, per node: the lists "both", "fg", "bg"
    colors,       \* BeamerColorGraph.colors, per container: the ordered dict
    last,         \* the call that made the current state, and how it ended
    calls         \* the number of calls made so far

vars == <<color, fontcolor, fg, inverted_fg, bg, inverted_bg, parents, colors,
          last, calls>>

nodeVars == <<color, fontcolor, fg, inverted_fg, bg, inverted_bg, parents>>

(***************************************************************************)
(* Bounds and the objects of the model.                                    *)
(***************************************************************************)
MaxCalls == 2

Raw == {"r1", "r2"}
Derived == {"d1", "d2"}
Nodes == Raw \cup Derived

Scale == 255 * 100

(***************************************************************************)
(* Hex strings.                                                            *)
(***************************************************************************)
UpperA == 10 + 6

HexValue(ch) == IF ch >= UpperA THEN ch - 6 ELSE ch

\* int(n, 16) of a two character slice
HexByte(s, i) == 16 * HexValue(s[i]) + HexValue(s[i + 1])

\* format(b, "02x")
FormatByte(b) == <<b \div 16, b % 16>>

\* the string "#rrggbb" or "#rrggbbaa" a string literal of the source stands for
Hex6(r, g, b) == FormatByte(r) \o FormatByte(g) \o FormatByte(b)
Hex8(r, g, b, a) == Hex6(r, g, b) \o FormatByte(a)
Upper(s) == [i \in DOMAIN s |-> IF s[i] >= 10 /\ s[i] <= 15 THEN s[i] + 6 ELSE s[i]]

IsString(c) == Len(c) \in {6, 8}

\* int(): the fraction dropped
RoundDown(n, d) == n \div d

\* Python's round(): to the nearest integer, a tie to the even one; of n / d
RoundHalfEven(n, d) ==
    LET q == n \div d
        r == n % d
    IN  IF 2 * r > d \/ (2 * r = d /\ q % 2 = 1) THEN q + 1 ELSE q

\* matplotlib.colors.to_rgba: of a hex string, int(n, 16) / 255 per byte, the
\* alpha 1 when the string has six digits; of a sequence of floats, itself.
to_rgba(c) ==
    IF IsString(c)
    THEN <<100 * HexByte(c, 1), 100 * HexByte(c, 3), 100 * HexByte(c, 5),
           IF Len(c) = 8 THEN 100 * HexByte(c, 7) ELSE Scale>>
    ELSE c

\* to_rgba raises ValueError for a component outside [0, 1]
to_rgba_raises(c) ==
    ~IsString(c) /\ \E i \in DOMAIN c : c[i] < 0 \/ c[i] > Scale

\* matplotlib.colors.to_hex(c, keep_alpha): format(round(val * 255), "02x") of
\* each component, the alpha only with keep_alpha
to_hex(c, keep_alpha) ==
    LET rgba == to_rgba(c)
        byte(i) == FormatByte(RoundHalfEven(rgba[i], 100))
    IN  byte(1) \o byte(2) \o byte(3) \o (IF keep_alpha THEN byte(4) ELSE <<>>)

\* Color.invert_color: every component of to_rgba(color), the alpha included,
\* becomes ((255 - int(255 * channel)) % 256) / 255; to_hex without keep_alpha
\* then writes the three colour bytes only.
invert_color(col) ==
    LET rgba == to_rgba(col)
        inverted == [i \in 1..4 |-> 100 * ((255 - (255 * rgba[i]) \div Scale) % 256)]
    IN  to_hex(inverted, FALSE)

(***************************************************************************)
(* Nodes.  A node's id is the md5 of its name; the model's nodes have      *)
(* distinct names and the name stands for the id.                          *)
(***************************************************************************)
\* Node.__init__: self.parents = dict(both=[], fg=[], bg=[])
NodeInit == [both |-> <<>>, fg |-> <<>>, bg |-> <<>>]

\* the literals of RawColor.__init__ and BeamerColor.__init__
RawInitColor == Upper(Hex8(255, 255, 255, 255))
RawInitFontcolor == Upper(Hex8(0, 0, 0, 255))
BeamerInitFg == Upper(Hex8(255, 255, 255, 0))
BeamerInitInvertedFg == Upper(Hex8(0, 0, 0, 255))
BeamerInitBg == Upper(Hex8(0, 0, 0, 0))
BeamerInitInvertedBg == Upper(Hex8(0, 0, 0, 255))

get_never_raises(n, ground) == FALSE

\* RawColor.get returns self.color whatever it is asked; BeamerColor.get
\* returns self.fg for "fg", self.bg for "bg" and raises RuntimeError otherwise.
get_raises(n, ground) == n \in Derived /\ ground \notin {"fg", "bg"}

get(n, ground) ==
    IF n \in Raw THEN color[n]
    ELSE IF ground = "fg" THEN fg[n]
    ELSE bg[n]

\* A colour spec is the tuple (color, ground) or (color, ground, percent).
\* The loop of Color._blend: result_color[i] + (channel * float(color[2]) / 100.)
RECURSIVE blend_sum(_, _, _)
blend_sum(color_specs, i, k) ==
    IF k = 0 THEN 0
    ELSE blend_sum(color_specs, i, k - 1)
         + (to_rgba(get(color_specs[k][1], color_specs[k][2]))[i]
            * color_specs[k][3]) \div 100

blend_result(color_specs) ==
    <<blend_sum(color_specs, 1, Len(color_specs)),
      blend_sum(color_specs, 2, Len(color_specs)),
      blend_sum(color_specs, 3, Len(color_specs)),
      to_rgba(get(color_specs[1][1], color_specs[1][2]))[4]>>

\* Color._blend raises: IndexError on no spec at all (color_specs[0]) and on a
\* spec without percent among several (color[2]); RuntimeError from
\* BeamerColor.get; ValueError from to_hex on a sum outside [0, 1].
blend_raises(color_specs) ==
    \/ Len(color_specs) = 0
    \/ \E k \in DOMAIN color_specs :
          get_raises(color_specs[k][1], color_specs[k][2])
    \/ /\ Len(color_specs) > 1
       /\ \/ \E k \in DOMAIN color_specs : Len(color_specs[k]) < 3
          \/ to_rgba_raises(blend_result(color_specs))

\* Color._blend: one spec is the source's value as it is stored, whatever its
\* percent; several are summed and written by to_hex with the alpha.
blend(color_specs) ==
    IF Len(color_specs) = 1
    THEN get(color_specs[1][1], color_specs[1][2])
    ELSE to_hex(blend_result(color_specs), TRUE)

\* The edge strings of BeamerColor.inherit: '"%s":%s' % (id, ground_from)
ground_from(ground) == IF ground \in {"fg", "bg"} THEN ground \o "out" ELSE "color"

inherit_edges_once(color_specs) ==
    IF color_specs = <<>> THEN <<>>
    ELSE <<[id |-> color_specs[1][1], port |-> ground_from(color_specs[1][2])]>>

inherit_edges(color_specs) ==
    [k \in DOMAIN color_specs |->
        [id |-> color_specs[k][1], port |-> ground_from(color_specs[k][2])]]

\* one parents dict shared by every node
append_parents_shared(self, key, edges) ==
    [n \in Nodes |-> [parents[n] EXCEPT ![key] = @ \o edges]]

\* self.parents[key] = edges, the list started again by every call
append_parents_replace(self, key, edges) ==
    [parents EXCEPT ![self][key] = edges]

\* self.parents[key] with the edges appended, the other nodes' lists untouched
append_parents(self, key, edges) ==
    [parents EXCEPT ![self][key] = @ \o edges]

(***************************************************************************)
(* The initial state: every node as its constructor leaves it, the         *)
(* containers empty.                                                       *)
(***************************************************************************)
Containers == {"graph", "subgraph"}

NodesInit ==
    /\ color = [r \in Raw |-> RawInitColor]
    /\ fontcolor = [r \in Raw |-> RawInitFontcolor]
    /\ fg = [d \in Derived |-> BeamerInitFg]
    /\ inverted_fg = [d \in Derived |-> BeamerInitInvertedFg]
    /\ bg = [d \in Derived |-> BeamerInitBg]
    /\ inverted_bg = [d \in Derived |-> BeamerInitInvertedBg]
    /\ parents = [n \in Nodes |-> NodeInit]

Init ==
    /\ NodesInit
    /\ colors = [c \in Containers |-> <<>>]
    /\ last = [op |-> "init"]
    /\ calls = 0

(***************************************************************************)
(* The operations on nodes.                                                *)
(***************************************************************************)
\* RawColor.set_color
SetColor(self, c) ==
    /\ color' = [color EXCEPT ![self] = to_hex(c, TRUE)]
    /\ fontcolor' = [fontcolor EXCEPT ![self] = invert_color(color'[self])]
    /\ last' = [op |-> "set_color", self |-> self, arg |-> c, raised |-> FALSE]
    /\ calls' = calls + 1
    /\ UNCHANGED <<fg, inverted_fg, bg, inverted_bg, parents, colors>>

\* BeamerColor.set_parent: the edge is appended first; parent.fg of a RawColor
\* raises AttributeError after that.
SetParent(self, parent) ==
    /\ parents' = append_parents(self, "both", <<[id |-> parent, port |-> ""]>>)
    /\ IF parent \in Derived
       THEN /\ fg' = [fg EXCEPT ![self] = to_hex(fg[parent], TRUE)]
            /\ inverted_fg' = [inverted_fg EXCEPT ![self] = invert_color(fg'[self])]
            /\ bg' = [bg EXCEPT ![self] = to_hex(bg[parent], TRUE)]
            /\ inverted_bg' = [inverted_bg EXCEPT ![self] = invert_color(bg'[self])]
       ELSE UNCHANGED <<fg, inverted_fg, bg, inverted_bg>>
    /\ last' = [op |-> "set_parent", self |-> self, parent |-> parent,
                raised |-> parent \notin Derived]
    /\ calls' = calls + 1
    /\ UNCHANGED <<color, fontcolor, colors>>

\* BeamerColor.inherit: the blend, then the edges (KeyError on a ground_to that
\* is no key of self.parents, before anything is appended), then the channel.
Inherit(self, ground_to, color_specs) ==
    LET raised == blend_raises(color_specs) \/ ground_to \notin DOMAIN NodeInit
        color_to_apply == blend(color_specs)
    IN  /\ IF raised
           THEN UNCHANGED <<fg, inverted_fg, bg, inverted_bg, parents>>
           ELSE /\ parents' = append_parents(self, ground_to, inherit_edges(color_specs))
                /\ IF ground_to = "fg"
                   THEN /\ fg' = [fg EXCEPT ![self] = to_hex(color_to_apply, TRUE)]
                        /\ inverted_fg' =
                              [inverted_fg EXCEPT ![self] = invert_color(fg'[self])]
                        /\ UNCHANGED <<bg, inverted_bg>>
                   ELSE IF ground_to = "bg"
                   THEN /\ bg' = [bg EXCEPT ![self] = to_hex(color_to_apply, TRUE)]
                        /\ inverted_bg' =
                              [inverted_bg EXCEPT ![self] = invert_color(bg'[self])]
                        /\ UNCHANGED <<fg, inverted_fg>>
                   ELSE UNCHANGED <<fg, inverted_fg, bg, inverted_bg>>
        /\ last' = [op |-> "inherit", self |-> self, ground_to |-> ground_to,
                    color_specs |-> color_specs, raised |-> raised]
        /\ calls' = calls + 1
        /\ UNCHANGED <<color, fontcolor, colors>>

\* RawColor.get / BeamerColor.get, the caller keeping what it returns
Get(self, ground) ==
    /\ last' = [op |-> "get", self |-> self, arg |-> ground,
                raised |-> get_raises(self, ground),
                ret |-> IF get_raises(self, ground) THEN <<>> ELSE get(self, ground)]
    /\ calls' = calls + 1
    /\ UNCHANGED <<nodeVars, colors>>

(***************************************************************************)
(* The calls the model makes.                                              *)
(***************************************************************************)
\* "#000000", "#FFFFFF", "#33669980"
SetColorArgs == {Hex6(0, 0, 0), Upper(Hex6(255, 255, 255)), Hex8(51, 102, 153, 128)}

GroundToArgs == {"fg", "bg", "both", "foreground"}

GetArgs == {"fg", "bg", "color"}

ColorSpecArgs ==
    { <<>>,
      << <<"r1", "color">> >>,
      << <<"d1", "fg">> >>,
      << <<"d2", "bg">> >>,
      << <<"d1", "foreground">> >>,
      << <<"r2", "fg">> >>,
      << <<"r2", "color", 50>> >>,
      << <<"r1", "color", 50>>, <<"r2", "color", 50>> >>,
      << <<"r1", "color", 50>>, <<"d1", "fg", 25>> >>,
      << <<"r2", "color", 100>>, <<"r1", "color", 50>> >>,
      << <<"d1", "bg", 25>>, <<"r1", "color", 50>>, <<"d2", "fg", 25>> >>,
      << <<"r1", "color">>, <<"r2", "color">> >> }

Next ==
    \/ \E self \in Raw, c \in SetColorArgs :
          calls < MaxCalls /\ SetColor(self, c)
    \/ \E self \in Derived, parent \in Nodes :
          calls < MaxCalls /\ SetParent(self, parent)
    \/ \E self \in Derived, ground_to \in GroundToArgs, color_specs \in ColorSpecArgs :
          calls < MaxCalls /\ Inherit(self, ground_to, color_specs)
    \/ \E self \in Nodes, ground \in GetArgs :
          calls < MaxCalls /\ Get(self, ground)

Spec == Init /\ [][Next]_vars

(***************************************************************************)
(* What the claims read.                                                   *)
(***************************************************************************)
\* the byte values a hex string writes: red, green, blue and, with eight
\* digits, alpha
Bytes(s) == [i \in 1..(Len(s) \div 2) |-> HexByte(s, 2 * i - 1)]

NodeState(n) ==
    IF n \in Raw
    THEN <<color[n], fontcolor[n], parents[n]>>
    ELSE <<fg[n], inverted_fg[n], bg[n], inverted_bg[n], parents[n]>>

Mutators == {"set_color", "set_parent", "inherit"}

(***************************************************************************)
(* C1: after a set_parent(child, parent) that returns, the child's fg, bg, *)
(* inverted_fg and inverted_bg are exactly equal to the parent's, whatever *)
(* state the parent is in, the freshly constructed one included.           *)
(***************************************************************************)
C1_SetParentCopiesExactly ==
    (last.op = "set_parent" /\ ~last.raised) =>
        /\ fg[last.self] = fg[last.parent]
        /\ bg[last.self] = bg[last.parent]
        /\ inverted_fg[last.self] = inverted_fg[last.parent]
        /\ inverted_bg[last.self] = inverted_bg[last.parent]

(***************************************************************************)
(* C2: an inherit call that returns adds exactly as many edges as it was   *)
(* given colour specs to the list of its destination and none to the       *)
(* node's other lists; a set_parent call that returns adds exactly one     *)
(* edge to the list "both" and none to the lists "fg" and "bg".            *)
(***************************************************************************)
C2_EdgeCounts ==
    [][ /\ (last'.op = "inherit" /\ ~last'.raised) =>
             \A key \in DOMAIN NodeInit :
                Len(parents'[last'.self][key]) =
                   Len(parents[last'.self][key])
                   + (IF key = last'.ground_to THEN Len(last'.color_specs) ELSE 0)
        /\ (last'.op = "set_parent" /\ ~last'.raised) =>
             /\ Len(parents'[last'.self].both) = Len(parents[last'.self].both) + 1
             /\ parents'[last'.self].fg = parents[last'.self].fg
             /\ parents'[last'.self].bg = parents[last'.self].bg
      ]_vars

\* an inherit of several sources has returned on a node that set_parent had
\* given an edge before
C2_Witness ==
    /\ last.op = "inherit" /\ ~last.raised
    /\ Len(last.color_specs) >= 2
    /\ last.ground_to = "fg"
    /\ Len(parents[last.self].fg) = Len(last.color_specs)
    /\ Len(parents[last.self].both) = 1

(***************************************************************************)
(* C3: for colour specs that each carry a percent, one spec alone and      *)
(* percents that do not add up to 100 included, the blend that inherit     *)
(* assigns has red, green and blue equal to the sums of the sources'       *)
(* channels times percent/100, rounded to a byte, and the alpha of the     *)
(* first source.                                                           *)
(***************************************************************************)
RECURSIVE WeightedBytes(_, _, _)
WeightedBytes(color_specs, i, k) ==
    IF k = 0 THEN 0
    ELSE WeightedBytes(color_specs, i, k - 1)
         + Bytes(get(color_specs[k][1], color_specs[k][2]))[i] * color_specs[k][3]

C3_BlendIsWeightedSum ==
    [][ ( /\ last'.op = "inherit"
          /\ last'.ground_to \in {"fg", "bg"}
          /\ last'.color_specs # <<>>
          /\ \A k \in DOMAIN last'.color_specs :
                /\ Len(last'.color_specs[k]) = 3
                /\ ~get_raises(last'.color_specs[k][1], last'.color_specs[k][2]) )
        => LET specs == last'.color_specs
               first == Bytes(get(specs[1][1], specs[1][2]))
               got == Bytes(IF last'.ground_to = "fg" THEN fg'[last'.self]
                                                      ELSE bg'[last'.self])
           IN  /\ ~last'.raised
               /\ \A i \in 1..3 :
                     got[i] = RoundHalfEven(WeightedBytes(specs, i, Len(specs)), 100)
               /\ got[4] = first[4]
      ]_vars

(***************************************************************************)
(* C4: a raw black with alpha FF at 50 and a raw white at 50, blended into *)
(* the fg of a new derived node, give the bytes 7F 7F 7F FF (the claim);   *)
(* they give 80 80 80 FF (as amended).                                     *)
(***************************************************************************)
C4_Case ==
    /\ last.op = "inherit" /\ ~last.raised
    /\ last.ground_to = "fg"
    /\ Len(last.color_specs) = 2
    /\ \A k \in 1..2 :
          /\ last.color_specs[k][1] \in Raw
          /\ Len(last.color_specs[k]) = 3
          /\ last.color_specs[k][3] = 50
    /\ Bytes(color[last.color_specs[1][1]]) = <<0, 0, 0, 255>>
    /\ Bytes(color[last.color_specs[2][1]]) = <<255, 255, 255, 255>>
    /\ parents[last.self] = [NodeInit EXCEPT !.fg = inherit_edges(last.color_specs)]
    /\ bg[last.self] = BeamerInitBg

C4_MidGrayIs7F == C4_Case => Bytes(fg[last.self]) = <<127, 127, 127, 255>>

C4_MidGrayIs80 == C4_Case => Bytes(fg[last.self]) = <<128, 128, 128, 255>>

C4_Witness == C4_Case /\ Len(fg[last.self]) = 8

(***************************************************************************)
(* C7: a set_color, set_parent or inherit call on one node leaves every    *)
(* other node's values, cached inverses and recorded edges as they were,   *)
(* the nodes that took a channel from it included.                         *)
(***************************************************************************)
C7_Snapshot ==
    [][ last'.op \in Mutators =>
           \A n \in Nodes \ {last'.self} : NodeState(n)' = NodeState(n) ]_vars

\* a raw node has changed colour after a derived node copied its fg from it,
\* and the derived node keeps the colour it copied
C7_Witness ==
    /\ last.op = "set_color"
    /\ \E d \in Derived :
          /\ parents[d].fg = <<[id |-> last.self, port |-> "color"]>>
          /\ Bytes(fg[d]) # Bytes(color[last.self])

(***************************************************************************)
(* C8: get on a raw node returns its colour for every argument; on a       *)
(* derived node it returns fg for "fg", bg for "bg" and raises for every   *)
(* other argument; it changes no node and no container.                    *)
(***************************************************************************)
C8_Get ==
    [][ last'.op = "get" =>
          /\ UNCHANGED <<nodeVars, colors>>
          /\ last'.self \in Raw =>
                ~last'.raised /\ last'.ret = color[last'.self]
          /\ (last'.self \in Derived /\ last'.arg = "fg") =>
                ~last'.raised /\ last'.ret = fg[last'.self]
          /\ (last'.self \in Derived /\ last'.arg = "bg") =>
                ~last'.raised /\ last'.ret = bg[last'.self]
          /\ (last'.self \in Derived /\ last'.arg \notin {"fg", "bg"}) =>
                last'.raised
      ]_vars

\* a derived node that has taken a channel refuses the channel "color"
C8_Witness ==
    /\ last.op = "get" /\ last.raised
    /\ last.self \in Derived
    /\ last.arg = "color"
    /\ parents[last.self].fg # <<>>

(***************************************************************************)
(* Color.invert_color on its own: the colours it is given are drawn in     *)
(* the initial state, and it is applied to what it returned up to          *)
(* MaxInversions times.                                                    *)
(***************************************************************************)
MaxInversions == 2

Levels == 0..255
Corners == {0, 255}

\* every level of each channel, the other channels at their ends; and a
\* string in capitals and one of six digits
InvertArgs ==
    {Hex8(r, g, b, a) : r \in Levels, g \in Corners, b \in Corners, a \in Corners}
    \cup {Hex8(r, g, b, a) : r \in Corners, g \in Levels, b \in Corners, a \in Corners}
    \cup {Hex8(r, g, b, a) : r \in Corners, g \in Corners, b \in Levels, a \in Corners}
    \cup {Hex8(r, g, b, a) : r \in Corners, g \in Corners, b \in Corners, a \in Levels}
    \cup {RawInitColor, Hex6(0, 0, 0)}

InvertInit ==
    /\ NodesInit
    /\ colors = [c \in Containers |-> <<>>]
    /\ calls = 0
    /\ last \in {[op |-> "input", color |-> v, ret |-> v, first |-> v, n |-> 0] :
                    v \in InvertArgs}

InvertColor ==
    /\ last.n < MaxInversions
    /\ last' = [op |-> "invert_color", color |-> last.ret,
                ret |-> invert_color(last.ret), first |-> last.first,
                n |-> last.n + 1]
    /\ calls' = calls + 1
    /\ UNCHANGED <<nodeVars, colors>>

InvertNext == InvertColor

InvertSpec == InvertInit /\ [][InvertNext]_vars

\* the levels 0..255 a colour reads as: to_rgba, the alpha of six digits 255
LevelsOf(c) == [i \in 1..4 |-> to_rgba(c)[i] \div 100]

Distance(a, b) == IF a >= b THEN a - b ELSE b - a

(***************************************************************************)
(* C5: invert_color(v) is an eight digit value whose red, green and blue   *)
(* are 255 minus those of v and whose alpha is the alpha of v.             *)
(***************************************************************************)
C5_InvertKeepsAlpha ==
    last.op = "invert_color" =>
        /\ Len(last.ret) = 8
        /\ \A i \in 1..3 : Bytes(last.ret)[i] = 255 - LevelsOf(last.color)[i]
        /\ Bytes(last.ret)[4] = LevelsOf(last.color)[4]

(***************************************************************************)
(* C6: invert_color(invert_color(v)) reads as v on red, green, blue and    *)
(* alpha, each within one level, whatever the alpha of v.                  *)
(***************************************************************************)
C6_InvertTwice ==
    (last.op = "invert_color" /\ last.n = 2) =>
        \A i \in 1..4 : Distance(LevelsOf(last.ret)[i], LevelsOf(last.first)[i]) <= 1

(***************************************************************************)
(* Containers.  BeamerColorGraph.colors is a dict, which keeps its keys in *)
(* the order of their first insertion: a sequence of <<key, value>>.  A    *)
(* value is a node or a container.                                         *)
(***************************************************************************)
HasKey(d, k) == \E i \in DOMAIN d : d[i][1] = k

\* a list of pairs instead of a dict: every item is appended
dict_set_append(d, k, v) == Append(d, <<k, v>>)

\* d[k] = v
dict_set(d, k, v) ==
    IF HasKey(d, k)
    THEN [i \in DOMAIN d |-> IF d[i][1] = k THEN <<k, v>> ELSE d[i]]
    ELSE Append(d, <<k, v>>)

\* dict.update(items), items a sequence of pairs
RECURSIVE dict_update(_, _)
dict_update(d, items) ==
    IF items = <<>> THEN d
    ELSE dict_update(dict_set(d, Head(items)[1], Head(items)[2]), Tail(items))

\* Node.name and BeamerColorGraph.name: the model's objects are called by name
NameOf(x) == x

\* The argument of add_colors is [dict |-> TRUE, items |-> pairs] for a dict and
\* [dict |-> FALSE, nodes |-> objects] for any other iterable, which add_colors
\* turns into [(c.name, c) for c in color_nodes].
add_colors_items(color_nodes) ==
    IF color_nodes.dict
    THEN color_nodes.items
    ELSE [i \in DOMAIN color_nodes.nodes |->
             <<NameOf(color_nodes.nodes[i]), color_nodes.nodes[i]>>]

\* BeamerColorGraph.add_colors
AddColors(self, color_nodes) ==
    /\ colors' = [colors EXCEPT ![self] = dict_update(@, add_colors_items(color_nodes))]
    /\ last' = [op |-> "add_colors", self |-> self, arg |-> color_nodes,
                raised |-> FALSE]
    /\ calls' = calls + 1
    /\ UNCHANGED nodeVars

(***************************************************************************)
(* Rendering.  The document is the sequence of its statements: the opening *)
(* of a graph or subgraph, a node entry, a connector, the closing brace.   *)
(***************************************************************************)
RECURSIVE Concat(_)
Concat(seqs) == IF seqs = <<>> THEN <<>> ELSE Head(seqs) \o Concat(Tail(seqs))

\* BeamerColor.__str__: 'tail = "oinv" if ":fg" in port_from, "inv" if ":bg"'
arrowtail(port_from) ==
    IF port_from.port = "fgout" THEN "oinv"
    ELSE IF port_from.port = "bgout" THEN "inv"
    ELSE "none"

str_edges(self, port_to, head) ==
    [i \in DOMAIN parents[self][port_to] |->
        [kind |-> "edge", from |-> parents[self][port_to][i], to |-> self,
         port_to |-> port_to, arrowtail |-> arrowtail(parents[self][port_to][i]),
         arrowhead |-> head]]

\* the connectors of "both" forgotten
str_node_channels_only(self) ==
    IF self \in Raw
    THEN <<[kind |-> "node", id |-> self, fillcolor |-> color[self],
            fontcolor |-> fontcolor[self]]>>
    ELSE <<[kind |-> "node", id |-> self, fg |-> fg[self],
            inverted_fg |-> inverted_fg[self], bg |-> bg[self],
            inverted_bg |-> inverted_bg[self]]>>
         \o str_edges(self, "fg", "obox")
         \o str_edges(self, "bg", "box")

\* Node.__str__ of a RawColor (its TEMPLATE) and BeamerColor.__str__ (its
\* TEMPLATE, the dotted connectors of "both", then those of "fg" and "bg")
str_node(self) ==
    IF self \in Raw
    THEN <<[kind |-> "node", id |-> self, fillcolor |-> color[self],
            fontcolor |-> fontcolor[self]]>>
    ELSE <<[kind |-> "node", id |-> self, fg |-> fg[self],
            inverted_fg |-> inverted_fg[self], bg |-> bg[self],
            inverted_bg |-> inverted_bg[self]]>>
         \o [i \in DOMAIN parents[self].both |->
               [kind |-> "edge", from |-> parents[self].both[i], to |-> self,
                port_to |-> "", arrowtail |-> "", arrowhead |-> "dotted"]]
         \o str_edges(self, "fg", "obox")
         \o str_edges(self, "bg", "box")

\* BeamerColorGraph.__str__: str(color) of every value, in the dict's order,
\* inside the TEMPLATE of the graph or subgraph
RECURSIVE str_graph(_)
str_graph(self) ==
    <<[kind |-> IF self = "graph" THEN "strict digraph" ELSE "subgraph", id |-> self]>>
    \o Concat([i \in DOMAIN colors[self] |->
                 IF colors[self][i][2] \in Containers
                 THEN str_graph(colors[self][i][2])
                 ELSE str_node(colors[self][i][2])])
    \o <<[kind |-> "}"]>>

\* str(graph), the caller keeping the document
Str(self) ==
    /\ last' = [op |-> "str", self |-> self, raised |-> FALSE, ret |-> str_graph(self)]
    /\ calls' = calls + 1
    /\ UNCHANGED <<nodeVars, colors>>

(***************************************************************************)
(* The calls made on containers, with a few on nodes for the edges to      *)
(* render.  A subgraph is put into the graph only: a container put into    *)
(* itself would have no rendering.                                         *)
(***************************************************************************)
MaxGraphCalls == 4

DictArgs ==
    { [dict |-> TRUE, items |-> << <<"a", "r1">>, <<"b", "r2">> >>],
      [dict |-> TRUE, items |-> << <<"a", "d1">> >>],
      [dict |-> TRUE, items |-> << <<"b", "d1">> >>] }

ListArgs ==
    { [dict |-> FALSE, nodes |-> <<"d1", "r1">>],
      [dict |-> FALSE, nodes |-> <<"r1", "d2", "r1">>] }

NestDictArgs == { [dict |-> TRUE, items |-> << <<"b", "subgraph">> >>] }

NestListArgs == { [dict |-> FALSE, nodes |-> <<"subgraph">>] }

GraphColorSpecArgs ==
    { << <<"r1", "color", 50>>, <<"r2", "color", 50>> >>,
      << <<"d2", "fg">> >> }

GraphNext ==
    \/ \E self \in Containers, color_nodes \in DictArgs :
          calls < MaxGraphCalls /\ AddColors(self, color_nodes)
    \/ \E self \in Containers, color_nodes \in ListArgs :
          calls < MaxGraphCalls /\ AddColors(self, color_nodes)
    \/ \E color_nodes \in NestDictArgs :
          calls < MaxGraphCalls /\ AddColors("graph", color_nodes)
    \/ \E color_nodes \in NestListArgs :
          calls < MaxGraphCalls /\ AddColors("graph", color_nodes)
    \/ \E self \in Containers :
          calls < MaxGraphCalls /\ Str(self)
    \/ calls < MaxGraphCalls /\ SetParent("d1", "d2")
    \/ \E ground_to \in {"fg", "bg"}, color_specs \in GraphColorSpecArgs :
          calls < MaxGraphCalls /\ Inherit("d1", ground_to, color_specs)

GraphSpec == Init /\ [][GraphNext]_vars

(***************************************************************************)
(* C9: after an add_colors call the container holds exactly one entry per  *)
(* distinct key, the keys it held and the keys of the call; a key of the   *)
(* call maps to the value the call gave it last, any other key to the      *)
(* value it had; and no call of any kind removes an entry.                 *)
(***************************************************************************)
Keys(d) == {d[i][1] : i \in DOMAIN d}

Lookup(d, k) == d[CHOOSE i \in DOMAIN d : d[i][1] = k][2]

\* what a call supplies: the pairs of a dict, or every node under its name
Supplied(color_nodes) ==
    IF color_nodes.dict
    THEN color_nodes.items
    ELSE [i \in DOMAIN color_nodes.nodes |->
             <<color_nodes.nodes[i], color_nodes.nodes[i]>>]

LastSupplied(items, k) ==
    LET at == {i \in DOMAIN items : items[i][1] = k}
    IN  items[CHOOSE i \in at : \A j \in at : j <= i][2]

C9_LastWriteWins ==
    [][ /\ \A c \in Containers : Keys(colors[c]) \subseteq Keys(colors'[c])
        /\ last'.op = "add_colors" =>
             LET self == last'.self
                 items == Supplied(last'.arg)
             IN  /\ \A i, j \in DOMAIN colors'[self] :
                        colors'[self][i][1] = colors'[self][j][1] => i = j
                 /\ Keys(colors'[self]) = Keys(colors[self]) \cup Keys(items)
                 /\ \A k \in Keys(items) :
                        Lookup(colors'[self], k) = LastSupplied(items, k)
                 /\ \A k \in Keys(colors[self]) \ Keys(items) :
                        Lookup(colors'[self], k) = Lookup(colors[self], k)
                 /\ \A c \in Containers \ {self} : colors'[c] = colors[c]
      ]_vars

\* a call has given a new value to a key the container held, beside a key it
\* did not touch
C9_Witness ==
    /\ last.op = "add_colors"
    /\ last.arg = [dict |-> TRUE, items |-> << <<"a", "d1">> >>]
    /\ colors[last.self] = << <<"a", "d1">>, <<"b", "r2">> >>

(***************************************************************************)
(* C10: the rendering of a container holds exactly one node entry for      *)
(* every colour node held in the container or in a container it holds,     *)
(* none for any other node, and exactly one connector for every edge       *)
(* recorded on those nodes (the claim).  As amended: one node entry for    *)
(* every entry of the container tree that holds a colour node, and with    *)
(* each of them one connector for every edge recorded on that node, so     *)
(* that a node held under two keys is rendered twice.                      *)
(***************************************************************************)
RECURSIVE Held(_)
Held(c) ==
    UNION { IF colors[c][i][2] \in Containers
            THEN Held(colors[c][i][2])
            ELSE {colors[c][i][2]} : i \in DOMAIN colors[c] }

NodeEntries(doc, n) ==
    Cardinality({i \in DOMAIN doc : doc[i].kind = "node" /\ doc[i].id = n})

Connectors(doc, n) ==
    Cardinality({i \in DOMAIN doc : doc[i].kind = "edge" /\ doc[i].to = n})

RecordedEdges(n) ==
    Len(parents[n].both) + Len(parents[n].fg) + Len(parents[n].bg)

C10_RenderOnce ==
    last.op = "str" =>
        \A n \in Nodes :
            IF n \in Held(last.self)
            THEN /\ NodeEntries(last.ret, n) = 1
                 /\ Connectors(last.ret, n) = RecordedEdges(n)
            ELSE /\ NodeEntries(last.ret, n) = 0
                 /\ Connectors(last.ret, n) = 0

\* the colour nodes of the container tree, one per entry holding one
RECURSIVE Entries(_)
Entries(c) ==
    Concat([i \in DOMAIN colors[c] |->
               IF colors[c][i][2] \in Containers
               THEN Entries(colors[c][i][2])
               ELSE <<colors[c][i][2]>>])

Times(entries, n) == Cardinality({i \in DOMAIN entries : entries[i] = n})

C10_RenderPerEntry ==
    last.op = "str" =>
        \A n \in Nodes :
            /\ NodeEntries(last.ret, n) = Times(Entries(last.self), n)
            /\ Connectors(last.ret, n) =
                  Times(Entries(last.self), n) * RecordedEdges(n)

\* a container is rendered that holds a node with a recorded edge under two
\* keys
C10_Witness ==
    /\ last.op = "str"
    /\ \E n \in Derived :
          /\ Times(Entries(last.self), n) = 2
          /\ RecordedEdges(n) >= 1
          /\ Connectors(last.ret, n) = 2 * RecordedEdges(n)

(***************************************************************************)
(* C11: in every state reachable from construction, each cached inverse is *)
(* the inverse of the value it belongs to: on a derived node the red,      *)
(* green and blue of inverted_fg are 255 minus those of fg and those of    *)
(* inverted_bg are 255 minus those of bg; on a raw node those of fontcolor *)
(* are 255 minus those of color.                                           *)
(***************************************************************************)
IsInverseOf(inverted, value) ==
    \A i \in 1..3 : LevelsOf(inverted)[i] = 255 - LevelsOf(value)[i]

C11_CachedInverses ==
    /\ \A n \in Raw : IsInverseOf(fontcolor[n], color[n])
    /\ \A n \in Derived :
          /\ IsInverseOf(inverted_fg[n], fg[n])
          /\ IsInverseOf(inverted_bg[n], bg[n])

(***************************************************************************)
(* C12 as the specification words it: the edges recorded for a derived     *)
(* node are exactly the sources of its current fg and bg. After an inherit *)
(* into fg or bg that returns, the list of that destination holds the      *)
(* sources of that call and no others; after a set_parent that returns,    *)
(* which assigns both channels, the node's only edge is the one to the     *)
(* parent.                                                                 *)
(***************************************************************************)
SourcesOf(color_specs) ==
    [k \in DOMAIN color_specs |->
        [id |-> color_specs[k][1], port |-> ground_from(color_specs[k][2])]]

C12_EdgesAreCurrentSources ==
    /\ (last.op = "inherit" /\ ~last.raised /\ last.ground_to \in {"fg", "bg"}) =>
          parents[last.self][last.ground_to] = SourcesOf(last.color_specs)
    /\ (last.op = "set_parent" /\ ~last.raised) =>
          parents[last.self] =
             [both |-> <<[id |-> last.parent, port |-> ""]>>, fg |-> <<>>, bg |-> <<>>]

(***************************************************************************)
(* C12: the edges recorded for a derived node are the sources of every     *)
(* call made on it so far, in call order. No call removes or rewrites an   *)
(* edge: every list keeps what it held, an inherit that returns adds its   *)
(* sources to the end of the list of its destination, a set_parent that    *)
(* returns adds its parent to the end of the list "both". An edge stays    *)
(* when a later call overwrites the channel it fed.                        *)
(***************************************************************************)
IsPrefix(s, t) == Len(s) <= Len(t) /\ SubSeq(t, 1, Len(s)) = s

Added(n, key) == SubSeq(parents'[n][key], Len(parents[n][key]) + 1, Len(parents'[n][key]))

C12_EdgesAccumulate ==
    [][ /\ \A n \in Nodes, key \in DOMAIN NodeInit :
              IsPrefix(parents[n][key], parents'[n][key])
        /\ (last'.op = "inherit" /\ ~last'.raised) =>
              Added(last'.self, last'.ground_to) = SourcesOf(last'.color_specs)
        /\ (last'.op = "set_parent" /\ ~last'.raised) =>
              Added(last'.self, "both") = <<[id |-> last'.parent, port |-> ""]>>
      ]_vars

\* an inherit has given the node a foreground of its own after set_parent had
\* copied the parent's, and the edge to the parent is still recorded
C12_Witness ==
    /\ last.op = "inherit" /\ ~last.raised /\ last.ground_to = "fg"
    /\ Len(parents[last.self].both) = 1
    /\ parents[last.self].both[1].id \in Derived
    /\ Bytes(fg[last.self]) # Bytes(fg[parents[last.self].both[1].id])
    /\ parents[last.self].fg = SourcesOf(last.color_specs)

(***************************************************************************)
(* C13: every set_parent and inherit call is all or nothing. A call that   *)
(* raises leaves the node's values, cached inverses and edge lists as they *)
(* were; a call that returns has both recorded its edges and assigned a    *)
(* channel (set_parent both channels, inherit the fg or bg it names).      *)
(***************************************************************************)
C13_AllOrNothing ==
    [][ \A n \in Derived :
           (last'.op \in {"set_parent", "inherit"} /\ last'.self = n) =>
              IF last'.raised
              THEN NodeState(n)' = NodeState(n)
              ELSE /\ parents'[n] # parents[n]
                   /\ last'.op = "inherit" => last'.ground_to \in {"fg", "bg"}
      ]_vars

(***************************************************************************)
(* Color._blend frame by frame. The arguments are source tuples, or one    *)
(* argument that is a list of source tuples (wrapped). A frame called with *)
(* one argument that is a list calls cls._blend(color_specs[0]): the new   *)
(* frame receives that same list as its one argument. The interpreter      *)
(* ends a chain of RecursionLimit frames with RecursionError.              *)
(***************************************************************************)
MaxBlendCalls == 2

RecursionLimit == 4

\* inherit line 157, or a direct call: the first frame
BlendCall(wrapped, color_specs) ==
    /\ last.op \in {"init", "set_color"}
    /\ last' = [op |-> "_blend", wrapped |-> wrapped, color_specs |-> color_specs,
                depth |-> 1, pc |-> "called", exc |-> "", ret |-> <<>>]
    /\ calls' = calls + 1
    /\ UNCHANGED <<nodeVars, colors>>

\* len(color_specs) == 1 and isinstance(color_specs[0], list): the same call again
BlendRecurse ==
    /\ last.op = "_blend" /\ last.pc = "called"
    /\ last.wrapped
    /\ last.depth < RecursionLimit
    /\ last' = [last EXCEPT !.depth = @ + 1]
    /\ UNCHANGED <<nodeVars, colors, calls>>

\* the frame the interpreter refuses
BlendOverflow ==
    /\ last.op = "_blend" /\ last.pc = "called"
    /\ last.wrapped
    /\ last.depth = RecursionLimit
    /\ last' = [last EXCEPT !.pc = "raised", !.exc = "RecursionError"]
    /\ UNCHANGED <<nodeVars, colors, calls>>

\* source tuples: the one source's value, or the weighted sum
BlendReturn ==
    /\ last.op = "_blend" /\ last.pc = "called"
    /\ ~last.wrapped
    /\ ~blend_raises(last.color_specs)
    /\ last' = [last EXCEPT !.pc = "returned", !.ret = blend(last.color_specs)]
    /\ UNCHANGED <<nodeVars, colors, calls>>

\* source tuples that get, the missing weight or to_hex refuse
BlendRaise ==
    /\ last.op = "_blend" /\ last.pc = "called"
    /\ ~last.wrapped
    /\ blend_raises(last.color_specs) = TRUE
    /\ last' = [last EXCEPT !.pc = "raised", !.exc = "Error"]
    /\ UNCHANGED <<nodeVars, colors, calls>>

BlendNext ==
    \/ \E self \in Raw, c \in SetColorArgs :
          calls < MaxBlendCalls /\ last.op \in {"init", "set_color"} /\ SetColor(self, c)
    \/ \E wrapped \in BOOLEAN, color_specs \in ColorSpecArgs :
          BlendCall(wrapped, color_specs)
    \/ BlendRecurse
    \/ BlendOverflow
    \/ BlendReturn
    \/ BlendRaise

BlendSpec == Init /\ [][BlendNext]_vars

(***************************************************************************)
(* C14: every call of _blend, and so of inherit, ends after a bounded      *)
(* number of steps by returning a colour or by raising an error of its     *)
(* own, whether it is given one source tuple, several, or one list of      *)
(* source tuples: no call goes on calling itself until the interpreter's   *)
(* recursion limit ends it.                                                *)
(***************************************************************************)
C14_BlendTerminates ==
    last.op = "_blend" => last.exc # "RecursionError"

====
